---- MODULE Spec2Model ----
(***************************************************************************)
(* The Cessna 172 force and moment model of PyFME                          *)
(* (src/pyfme/aircrafts/cessna_172.py): the constructor, the thrust,       *)
(* longitudinal and lateral coefficient routines, the dimensionalisation   *)
(* and the aggregation of calculate_forces_and_moments, for two aircraft   *)
(* objects whose evaluations run interleaved method by method.             *)
(*                                                                         *)
(* Numbers.  The program computes in IEEE doubles.  The model computes in  *)
(* exact decimal fixed point: a Fix is a sign and NLimbs limbs of four     *)
(* decimal digits, FracLimbs of them after the decimal point.  Sums and    *)
(* products are exact as long as the result needs no more digits than      *)
(* that; a quotient is cut at the last digit kept.  A value that involves  *)
(* an angle in radians is a Num, a + b * DEG, with a and b Fix and DEG the *)
(* radian measure of one degree (pi/180): np.deg2rad(d) is d * DEG and     *)
(* np.rad2deg(b * DEG) is b, both without rounding.                        *)
(*                                                                         *)
(* Units of the literals: the grids alpha_data, delta_elev_data and        *)
(* delta_aile_data hold tenths of a degree; every coefficient table holds  *)
(* units of 10^-7; TAS is a whole number of m/s.                           *)
(***************************************************************************)
EXTENDS Integers, Sequences, FiniteSets, TLC

\* Resolution and range of the fixed-point numbers: limbs after and before
\* the decimal point.
FracLimbs == 7

IntLimbs == 2

Base == 10^4
NLimbs == FracLimbs + IntLimbs

\* the value of an expression outside the numbers modelled
Unmodelled == CHOOSE v \in {} : TRUE

(***************************************************************************)
(* Magnitudes: sequences of NLimbs limbs, least significant first.  The     *)
(* long division works on limb sequences of other lengths too.  A loop     *)
(* over the limbs carries a state st from limb to limb: the limb st.i to   *)
(* do next, the carry st.c or the remainder st.r, and the limbs st.acc of  *)
(* the result so far.  It is written as a recursion that does the first    *)
(* half of the limbs left and then the rest, which keeps the evaluation    *)
(* shallow.                                                                *)
(***************************************************************************)
ZeroMag == [i \in 1..NLimbs |-> 0]

\* limb st.i of x + s * y; the carry is a borrow when it is -1
AddLimb(x, y, s, st) ==
    LET t == x[st.i] + s * y[st.i] + st.c
    IN [i |-> st.i + 1, c |-> IF t < 0 THEN -1 ELSE t \div Base,
        acc |-> Append(st.acc, t % Base)]

RECURSIVE MagAddC(_, _, _, _, _)
MagAddC(x, y, s, hi, st) ==
    IF st.i = hi THEN AddLimb(x, y, s, st)
    ELSE MagAddC(x, y, s, hi, MagAddC(x, y, s, (st.i + hi) \div 2, st))

\* x + s * y for s = 1, and for s = -1 and x >= y, of two sequences of one
\* length
MagAdd(x, y, s) ==
    MagAddC(x, y, s, Len(x), [i |-> 1, c |-> 0, acc |-> <<>>]).acc

MagLess(x, y) ==
    \E i \in 1..Len(x) :
        x[i] < y[i] /\ \A j \in (i + 1)..Len(x) : x[j] = y[j]

\* the lowest and the highest limb of a magnitude that is not zero
LowLimb(x) ==
    CHOOSE i \in 1..Len(x) : x[i] # 0 /\ \A j \in 1..(i - 1) : x[j] = 0

HighLimb(x) ==
    CHOOSE i \in 1..Len(x) : x[i] # 0 /\ \A j \in (i + 1)..Len(x) : x[j] = 0

Max(a, b) == IF a > b THEN a ELSE b

Min(a, b) == IF a < b THEN a ELSE b

RECURSIVE ColSum(_, _, _, _, _)
ColSum(x, y, k, lo, hi) ==
    IF lo > hi THEN 0
    ELSE IF lo = hi THEN x[lo] * y[k + 1 - lo]
    ELSE ColSum(x, y, k, lo, (lo + hi) \div 2)
         + ColSum(x, y, k, (lo + hi) \div 2 + 1, hi)

\* column k of the long multiplication of x by y; rx and ry are the ranges
\* of limbs of x and y that are not zero
Col(x, y, rx, ry, k) ==
    ColSum(x, y, k, Max(rx[1], k + 1 - ry[2]), Min(rx[2], k + 1 - ry[1]))

\* column st.i of the product; the limbs below the resolution are dropped
MulCol(x, y, rx, ry, st) ==
    LET t == Col(x, y, rx, ry, st.i) + st.c
    IN [i |-> st.i + 1, c |-> t \div Base,
        acc |-> IF st.i > FracLimbs THEN Append(st.acc, t % Base)
                ELSE st.acc]

RECURSIVE MagMulC(_, _, _, _, _, _)
MagMulC(x, y, rx, ry, hi, st) ==
    IF st.i = hi THEN MulCol(x, y, rx, ry, st)
    ELSE MagMulC(x, y, rx, ry, hi,
                 MagMulC(x, y, rx, ry, (st.i + hi) \div 2, st))

\* the product of two magnitudes that are not zero, rescaled
MagMul(x, y) ==
    MagMulC(x, y, <<LowLimb(x), HighLimb(x)>>, <<LowLimb(y), HighLimb(y)>>,
            FracLimbs + NLimbs, [i |-> 1, c |-> 0, acc |-> <<>>]).acc

\* limb st.i of x divided by n, from the highest limb down
DivLimb(x, n, st) ==
    LET t == st.r * Base + x[st.i]
    IN [i |-> st.i - 1, r |-> t % n, acc |-> <<t \div n>> \o st.acc]

RECURSIVE MagDivC(_, _, _, _)
MagDivC(x, n, lo, st) ==
    IF st.i = lo THEN DivLimb(x, n, st)
    ELSE MagDivC(x, n, lo, MagDivC(x, n, (st.i + lo + 1) \div 2, st))

\* long division by a whole number 0 < n <= 10^5
MagDivInt(x, n) ==
    MagDivC(x, n, 1, [i |-> NLimbs, r |-> 0, acc |-> <<>>]).acc

\* limb st.i of x * k for one limb k
MulLimb(x, k, st) ==
    LET t == x[st.i] * k + st.c
    IN [i |-> st.i + 1, c |-> t \div Base, acc |-> Append(st.acc, t % Base)]

RECURSIVE SeqMulC(_, _, _, _)
SeqMulC(x, k, hi, st) ==
    IF st.i = hi THEN MulLimb(x, k, st)
    ELSE SeqMulC(x, k, hi, SeqMulC(x, k, (st.i + hi) \div 2, st))

\* the limbs and the last carry of a product
WithCarry(st) == Append(st.acc, st.c)

\* x * k for one limb k, a sequence one limb longer than x
SeqMul(x, k) ==
    WithCarry(SeqMulC(x, k, Len(x), [i |-> 1, c |-> 0, acc |-> <<>>]))

\* the largest q <= qhat with q * y <= r; r is one limb longer than y
RECURSIVE QuotientLimb(_, _, _)
QuotientLimb(r, y, qhat) ==
    IF qhat > 0 /\ MagLess(r, SeqMul(y, qhat))
    THEN QuotientLimb(r, y, qhat - 1)
    ELSE qhat

\* a step of the schoolbook division of n by y, whose highest limb is at
\* least Base / 2: limb st.i of n is brought down to the remainder st.r,
\* which is less than y and one limb longer, and gives limb q of the quotient
LongStep(n, y, st) ==
    LET m == Len(y)
        rs == <<n[st.i]>> \o SubSeq(st.r, 1, m)
        q == QuotientLimb(rs, y,
                          Min(Base - 1,
                              (rs[m + 1] * Base + rs[m]) \div y[m]))
    IN [i |-> st.i - 1,
        r |-> IF q = 0 THEN rs ELSE MagAdd(rs, SeqMul(y, q), -1),
        acc |-> <<q>> \o st.acc]

RECURSIVE LongDivC(_, _, _, _)
LongDivC(n, y, lo, st) ==
    IF st.i = lo THEN LongStep(n, y, st)
    ELSE LongDivC(n, y, lo, LongDivC(n, y, (st.i + lo + 1) \div 2, st))

\* the limbs of the quotient of n by y
LongDiv(n, y) ==
    LongDivC(n, y, 1,
             [i |-> Len(n), r |-> [i \in 1..(Len(y) + 1) |-> 0],
              acc |-> <<>>]).acc

\* the limbs q of a quotient as a magnitude
Quotient(q) ==
    IF \E i \in (NLimbs + 1)..Len(q) : q[i] # 0 THEN Unmodelled
    ELSE SubSeq(q, 1, NLimbs)

\* the quotient of two magnitudes, rescaled and cut at the resolution; m is
\* the highest limb of y that is not zero, and d scales both to bring that
\* limb up to Base / 2
ScaledDiv(x, y, m, d) ==
    Quotient(LongDiv(SeqMul([i \in 1..FracLimbs |-> 0] \o x, d),
                     SubSeq(SeqMul(SubSeq(y, 1, m), d), 1, m)))

MagDiv(x, y) == ScaledDiv(x, y, HighLimb(y), Base \div (y[HighLimb(y)] + 1))

(***************************************************************************)
(* Fix: signed fixed-point numbers.  Zero is never negative, so equal      *)
(* numbers are equal records.                                              *)
(***************************************************************************)
Norm(neg, mag) == [neg |-> neg /\ mag # ZeroMag, mag |-> mag]

FZero == Norm(FALSE, ZeroMag)

FNeg(x) == Norm(~x.neg, x.mag)

\* u + v for |u| >= |v| when the signs differ
FAddOrdered(u, v) ==
    Norm(u.neg, MagAdd(u.mag, v.mag, IF u.neg = v.neg THEN 1 ELSE -1))

FAdd(x, y) ==
    IF x.neg # y.neg /\ MagLess(x.mag, y.mag) THEN FAddOrdered(y, x)
    ELSE FAddOrdered(x, y)

FSub(x, y) == FAdd(x, FNeg(y))

FMul(x, y) ==
    IF x.mag = ZeroMag \/ y.mag = ZeroMag THEN FZero
    ELSE Norm(x.neg # y.neg, MagMul(x.mag, y.mag))

Abs(n) == IF n < 0 THEN -n ELSE n

\* x / n for a whole number n # 0
FDivInt(x, n) == Norm((n < 0) # x.neg, MagDivInt(x.mag, Abs(n)))

\* x / y for y # 0
FDiv(x, y) ==
    IF y.mag = ZeroMag THEN Unmodelled
    ELSE IF x.mag = ZeroMag THEN FZero
    ELSE Norm(x.neg # y.neg, MagDiv(x.mag, y.mag))

FLess(x, y) ==
    IF x.neg # y.neg THEN x.neg
    ELSE IF x.neg THEN MagLess(y.mag, x.mag)
    ELSE MagLess(x.mag, y.mag)

RECURSIVE LimbsOf(_, _)
LimbsOf(m, k) ==
    IF k = 0 THEN <<>> ELSE <<m % Base>> \o LimbsOf(m \div Base, k - 1)

\* the whole number n
FInt(n) ==
    Norm(n < 0, [i \in 1..FracLimbs |-> 0] \o LimbsOf(Abs(n), IntLimbs))

\* the decimal n * 10^-d, 0 <= d <= 4 * FracLimbs: the digits of n, moved up
\* to the next limb boundary and set down as many limbs below the point
FDec(n, d) ==
    LET k == (d + 3) \div 4
    IN Norm(n < 0, [i \in 1..(FracLimbs - k) |-> 0]
                   \o LimbsOf(Abs(n) * 10^(4 * k - d), IntLimbs + k))

(***************************************************************************)
(* Num: a + b * DEG.  The program never multiplies two angles in radians,  *)
(* and never converts anything but an angle to degrees; both are outside   *)
(* the numbers modelled.                                                   *)
(***************************************************************************)
Real(x) == [a |-> x, b |-> FZero]

Zero == Real(FZero)

Int2Num(n) == Real(FInt(n))

Dec(n, d) == Real(FDec(n, d))

Neg(x) == [a |-> FNeg(x.a), b |-> FNeg(x.b)]

Add(x, y) == [a |-> FAdd(x.a, y.a), b |-> FAdd(x.b, y.b)]

Sub(x, y) == Add(x, Neg(y))

Mul(x, y) ==
    IF x.b # FZero /\ y.b # FZero THEN Unmodelled
    ELSE [a |-> FMul(x.a, y.a),
          b |-> FMul(IF y.b # FZero THEN x.a ELSE x.b,
                     IF y.b # FZero THEN y.b ELSE y.a)]

DivInt(x, n) == [a |-> FDivInt(x.a, n), b |-> FDivInt(x.b, n)]

Less(x, y) ==
    IF x.b # FZero \/ y.b # FZero THEN Unmodelled ELSE FLess(x.a, y.a)

\* np.deg2rad
deg2rad(x) == IF x.b # FZero THEN Unmodelled ELSE [a |-> FZero, b |-> x.a]

\* np.rad2deg
rad2deg(x) == IF x.a # FZero THEN Unmodelled ELSE Real(x.b)

(***************************************************************************)
(* Conversion factors imported from pyfme.models.constants.                *)
(***************************************************************************)
ft2m == Dec(3048, 4)

lbs2kg == Dec(453592, 6)

slugft2_2_kgm2 == Dec(13558179, 7)

(***************************************************************************)
(* The aerodynamic data of Cessna172.__init__.                             *)
(***************************************************************************)
NegTable(t) == [k \in 1..Len(t) |-> (-1) * t[k]]

alpha_data ==
    <<-75, -50, -25, 0, 25, 50, 75, 100, 150, 170, 180, 195>>

delta_elev_data ==
    <<-260, -200, -100, -50, 0, 75, 150, 225, 280>>

delta_aile_data ==
    <<-150, -100, -50, -25, 0, 50, 100, 150, 200>>

CD_data ==
    <<440000, 340000, 300000, 300000, 360000, 480000, 670000, 930000,
        1500000, 1690000, 1770000, 1840000>>

CD_delta_elev_data ==
    <<<<135000, 119000, 102000, 84600, 67000, 49000, 30900, 11700, -33000,
        -54100, -65600, -83800>>,
       <<121000, 106000, 90200, 73800, 57400, 40600, 23800, 5900, -35800,
           -55500, -66100, -83100>>,
       <<65100, 55200, 44700, 33800, 22900, 11700, 517, -11400, -39100,
           -52200, -59300, -70600>>,
       <<24900, 20000, 14700, 9310, 3840, -1740, -7350, -13300, -27200,
           -33700, -37300, -42900>>,
       <<0, 0, 0, 0, 0, 0, 0, 0, 0, 0, 0, 0>>,
       <<-8900, -1500, 6400, 14600, 22800, 31100, 39500, 48500, 69300, 79100,
           84400, 92900>>,
       <<12100, 26100, 41100, 56600, 72100, 87900, 104000, 121000, 160000,
           179000, 189000, 205000>>,
       <<17400, 32300, 48300, 64800, 81400, 98300, 115000, 133000, 175000,
           195000, 206000, 223000>>,
       <<27300, 43800, 61400, 79600, 98000, 117000, 135000, 155000, 202000,
           224000, 236000, 255000>>>>

CL_data ==
    <<-5710000, -3210000, -830000, 1480000, 3920000, 6500000, 9180000,
        11950000, 16590000, 17890000, 18400000, 18890000>>

CL_alphadot_data ==
    <<24340000, 23620000, 22530000, 22090000, 21780000, 21490000, 20690000,
        18550000, 11850000, 8333000, 6394000, 4971000>>

CL_q_data ==
    <<72820000, 72820000, 72820000, 72820000, 72820000, 72820000, 72820000,
        72820000, 72820000, 72820000, 72820000, 72820000>>

CL_delta_elev_data ==
    <<-1320000, -1230000, -820000, -410000, 0, 610000, 1160000, 1240000,
        1370000>>

CY_beta_data ==
    <<-2680000, -2680000, -2680000, -2680000, -2680000, -2680000, -2680000,
        -2680000, -2680000, -2680000, -2680000, -2680000>>

CY_p_data ==
    <<-320000, -372000, -418000, -463000, -510000, -563000, -617000, -680000,
        -783000, -812000, -824000, -830000>>

CY_r_data ==
    <<2018000, 2054000, 2087000, 2115000, 2139000, 2159000, 2175000, 2187000,
        2198000, 2198000, 2196000, 2194000>>

CY_delta_rud_data ==
    NegTable(<<5610000, 5610000, 5610000, 5610000, 5610000, 5610000, 5610000,
        5610000, 5610000, 5610000, 5610000, 5610000>>)

Cl_beta_data ==
    <<-1780000, -1860000, -1943000, -2020000, -2103000, -2190000, -2283000,
        -2376000, -2516000, -2550000, -2560000, -2570000>>

Cl_p_data ==
    <<-4968000, -4678000, -4489000, -4595000, 4870000, -5085000, -5231000,
        -4916000, -3010000, -2030000, -1498000, -671000>>

Cl_r_data ==
    <<-967500, -524500, -108700, 298600, 734200, 1193000, 1667000, 2152000,
        2909000, 3086000, 3146000, 3197000>>

Cl_delta_rud_data ==
    NegTable(<<910000, 820000, 720000, 630000, 530000, 432000, 333000,
        233000, 33000, -50000, -90000, -150000>>)

Cl_delta_aile_data ==
    <<-780520, -599260, -364220, -182110, 0, 182110, 364220, 599260, 780520>>

CM_data ==
    <<597000, 498000, 314000, 75000, -248000, 680000, -1227000, -1927000,
        -3779000, -4605000, -5043000, -5496000>>

CM_q_data ==
    <<-62320000, -62320000, -62320000, -62320000, -62320000, -62320000,
        -62320000, -62320000, -62320000, -62320000, -62320000, -62320000>>

CM_alphadot_data ==
    <<-66400000, -64410000, -61460000, -60250000, -59420000, -58610000,
        -56440000, -50590000, -32330000, -22730000, -17440000, -13560000>>

CM_delta_elev_data ==
    <<3302000, 3065000, 2014000, 1007000, -2000, -1511000, -2863000,
        -3109000, -3450000>>

CN_beta_data ==
    <<126000, 126000, 126000, 126000, 126000, 126000, 126000, 126000, 126000,
        126000, 126000, 126000>>

CN_p_data ==
    <<300000, 160000, 26200, -108000, -245000, -385000, -528000, -708000,
        -1130000, -1284000, -1356000, -1422000>>

CN_r_data ==
    <<-280000, -270000, -270000, -275000, -293000, -325000, -370000, -430000,
        -548400, -580000, -592000, -601500>>

CN_delta_rud_data ==
    NegTable(<<-2110000, -2150000, -2180000, -2200000, -2240000, -2260000,
        -2280000, -2290000, -2300000, -2300000, -2300000, -2300000>>)

CN_delta_aile_data ==
    <<<<-43210, -22380, -2783, 16450, 36990, 58610, 80990, 103800, 139700,
        148300, 151200, 153900>>,
       <<-33180, -17180, -2137, 12630, 28400, 45000, 62180, 79700, 107200,
           113800, 116100, 118100>>,
       <<-20160, -10440, -1230, 7675, 17300, 27350, 38000, 48440, 65200,
           69200, 70600, 72000>>,
       <<-10100, -5220, -649, 3840, 8630, 13700, 19000, 24200, 32600, 34600,
           35300, 36000>>,
       <<0, 0, 0, 0, 0, 0, 0, 0, 0, 0, 0, 0>>,
       <<10100, 5200, 650, -3840, -8600, -14000, -20000, -24220, -32600,
           -34600, -35300, -36000>>,
       <<20200, 10440, 1300, -8000, -17300, -27350, -38000, -48440, -65200,
           -69200, -70600, -72000>>,
       <<33200, 17200, 2140, -12630, -28400, -45000, -62200, -80000, -107200,
           -113800, -116100, -118100>>,
       <<43210, 22400, 2800, -16450, -37000, -58600, -81000, -104000,
           -140000, -148300, -151200, -154000>>>>

\* a grid entry (tenths of a degree) and a table entry (units of 10^-7)
Grid(n) == Dec(n, 1)

Coef(n) == Dec(n, 7)

(***************************************************************************)
(* Cessna172.__init__: the attributes of a new aircraft object.  The       *)
(* controls dictionary has no 'delta_t' key; CM and CN are no attributes   *)
(* yet (the constructor declares Cm and Cn).                               *)
(***************************************************************************)
zeros3 == <<Zero, Zero, Zero>>

Cessna172 ==
    [mass |-> Mul(Int2Num(2300), lbs2kg),
     inertia |-> <<<<Mul(Int2Num(948), slugft2_2_kgm2), Zero, Zero>>,
                   <<Zero, Mul(Int2Num(1346), slugft2_2_kgm2), Zero>>,
                   <<Zero, Zero, Mul(Int2Num(1967), slugft2_2_kgm2)>>>>,
     Sw |-> Mul(Int2Num(174), Mul(ft2m, ft2m)),
     chord |-> Mul(Dec(49, 1), ft2m),
     span |-> Mul(Dec(358, 1), ft2m),
     alpha_data |-> alpha_data,
     delta_elev_data |-> delta_elev_data,
     delta_aile_data |-> delta_aile_data,
     CD_data |-> CD_data,
     CD_delta_elev_data |-> CD_delta_elev_data,
     CL_data |-> CL_data,
     CL_alphadot_data |-> CL_alphadot_data,
     CL_q_data |-> CL_q_data,
     CL_delta_elev_data |-> CL_delta_elev_data,
     CY_beta_data |-> CY_beta_data,
     CY_p_data |-> CY_p_data,
     CY_r_data |-> CY_r_data,
     CY_delta_rud_data |-> CY_delta_rud_data,
     Cl_beta_data |-> Cl_beta_data,
     Cl_p_data |-> Cl_p_data,
     Cl_r_data |-> Cl_r_data,
     Cl_delta_rud_data |-> Cl_delta_rud_data,
     Cl_delta_aile_data |-> Cl_delta_aile_data,
     CM_data |-> CM_data,
     CM_q_data |-> CM_q_data,
     CM_alphadot_data |-> CM_alphadot_data,
     CM_delta_elev_data |-> CM_delta_elev_data,
     CN_beta_data |-> CN_beta_data,
     CN_p_data |-> CN_p_data,
     CN_r_data |-> CN_r_data,
     CN_delta_rud_data |-> CN_delta_rud_data,
     CN_delta_aile_data |-> CN_delta_aile_data,
     controls |-> [delta_elevator |-> Zero,
                   delta_aileron |-> Zero,
                   delta_rudder |-> Zero],
     control_limits |->
         [delta_elevator |-> <<deg2rad(Int2Num(-26)), deg2rad(Int2Num(28))>>,
          delta_aileron |-> <<deg2rad(Int2Num(-15)), deg2rad(Int2Num(20))>>,
          delta_rudder |-> <<deg2rad(Int2Num(-16)), deg2rad(Int2Num(16))>>,
          delta_t |-> <<Zero, Int2Num(1)>>],
     CL |-> Zero, CD |-> Zero, Cm |-> Zero,
     CY |-> Zero, Cl |-> Zero, Cn |-> Zero,
     Ct |-> Zero,
     gravity_force |-> zeros3,
     total_forces |-> zeros3,
     total_moments |-> zeros3,
     load_factor |-> Zero,
     TAS |-> 0,
     CAS |-> 0,
     EAS |-> 0,
     Mach |-> 0,
     q_inf |-> Zero,
     p |-> Zero,
     q |-> Zero,
     r |-> Zero,
     alpha |-> Zero,
     beta |-> Zero,
     alpha_dot |-> Zero]

\* self.name = v, creating the attribute when the object has none of the name
SetAttr(self, name, v) ==
    [n \in DOMAIN self \cup {name} |-> IF n = name THEN v ELSE self[n]]

(***************************************************************************)
(* np.interp(x, xp, fp): fp[0] left of the grid, fp[-1] right of it, the   *)
(* table value at a grid point, and slope * (x - xp[j]) + fp[j] between    *)
(* xp[j] and xp[j+1].                                                      *)
(***************************************************************************)
\* the last j with xp[j] <= x, for xp[1] <= x
RECURSIVE Bracket(_, _, _)
Bracket(x, xp, j) ==
    IF j = Len(xp) \/ Less(x, Grid(xp[j + 1])) THEN j
    ELSE Bracket(x, xp, j + 1)

\* the line through (xp[j], fp[j]) and (xp[j+1], fp[j+1]), at x
Segment(x, xp, fp, j) ==
    Add(Mul(DivInt(Mul(Int2Num(10), Sub(Coef(fp[j + 1]), Coef(fp[j]))),
                   xp[j + 1] - xp[j]),
            Sub(x, Grid(xp[j]))),
        Coef(fp[j]))

\* Variant: an index one too far at a grid point.
interp_upper_knot(x, xp, fp) ==
    IF Less(x, Grid(xp[1])) THEN Coef(fp[1])
    ELSE IF Less(Grid(xp[Len(xp)]), x) THEN Coef(fp[Len(fp)])
    ELSE LET j == Bracket(x, xp, 1)
         IN IF j = Len(xp) THEN Coef(fp[j])
            ELSE IF x = Grid(xp[j]) THEN Coef(fp[j + 1])
            ELSE Segment(x, xp, fp, j)

\* Variant: the end segments continued outside the grid.
interp_linear_extrapolation(x, xp, fp) ==
    IF Less(x, Grid(xp[1])) THEN Segment(x, xp, fp, 1)
    ELSE IF Less(Grid(xp[Len(xp)]), x) THEN Segment(x, xp, fp, Len(xp) - 1)
    ELSE LET j == Bracket(x, xp, 1)
         IN IF j = Len(xp) \/ x = Grid(xp[j]) THEN Coef(fp[j])
            ELSE Segment(x, xp, fp, j)

interp(x, xp, fp) ==
    IF Less(x, Grid(xp[1])) THEN Coef(fp[1])
    ELSE IF Less(Grid(xp[Len(xp)]), x) THEN Coef(fp[Len(fp)])
    ELSE LET j == Bracket(x, xp, 1)
         IN IF j = Len(xp) \/ x = Grid(xp[j]) THEN Coef(fp[j])
            ELSE Segment(x, xp, fp, j)

(***************************************************************************)
(* interpolate.RectBivariateSpline(x, y, z)(u, v)[0,0]: the interpolating  *)
(* bicubic spline (s = 0, kx = ky = 3) through the table z.  FITPACK       *)
(* evaluates it with both arguments clamped to the grid.  With no          *)
(* smoothing the spline is the tensor product of the cubic splines of one  *)
(* variable whose interior knots leave out the second and the last but one *)
(* grid point (not-a-knot ends): the spline along y through each row of z, *)
(* taken at v, and then the spline along x through these values, taken at  *)
(* u.  At a grid point a spline has the value it interpolates.             *)
(*                                                                         *)
(* A spline of one variable through (xp[i], f[i]), i in 1..n, is computed  *)
(* from its second derivatives M[i] at the grid points.  Continuity of the *)
(* first derivative at xp[i], 1 < i < n, with h[i] = xp[i+1] - xp[i]:      *)
(*   h[i-1] M[i-1] + 2 (h[i-1] + h[i]) M[i] + h[i] M[i+1]                  *)
(*       = 6 ((f[i+1] - f[i]) / h[i] - (f[i] - f[i-1]) / h[i-1]);          *)
(* a third derivative continuous at xp[2] and at xp[n-1] gives M[1] and    *)
(* M[n] in terms of their neighbours, which leaves a tridiagonal system    *)
(* for M[2..n-1].  Abscissae are in tenths of a degree, as in the grids;   *)
(* the values of a spline do not depend on the unit.                       *)
(***************************************************************************)
Clamp(u, xp) ==
    IF Less(u, Grid(xp[1])) THEN Grid(xp[1])
    ELSE IF Less(Grid(xp[Len(xp)]), u) THEN Grid(xp[Len(xp)])
    ELSE u

Knots(u, xp) == {k \in 1..Len(xp) : Grid(xp[k]) = u}

Steps(xp) == [i \in 1..(Len(xp) - 1) |-> xp[i + 1] - xp[i]]

\* row i of the system for M[2..n-1]: a M[i-1] + b M[i] + c M[i+1] = s d[i],
\* d[i] six times the difference of the slopes at xp[i]
TriRow(h, n, i) ==
    IF i = 2
    THEN [a |-> 0, b |-> (h[1] + h[2]) * (h[1] + 2 * h[2]),
          c |-> h[2] * h[2] - h[1] * h[1], s |-> h[2]]
    ELSE IF i = n - 1
    THEN [a |-> h[n - 2] * h[n - 2] - h[n - 1] * h[n - 1],
          b |-> (h[n - 2] + h[n - 1]) * (2 * h[n - 2] + h[n - 1]),
          c |-> 0, s |-> h[n - 2]]
    ELSE [a |-> h[i - 1], b |-> 2 * (h[i - 1] + h[i]), c |-> h[i], s |-> 1]

\* the elimination of the system, which depends on the grid alone: for the
\* rows 2..n-1 in turn the multiplier w of the row above, the reciprocal rho
\* of the pivot and the entry c right of the pivot.  acc holds the rows done;
\* this and the two substitutions do the first half of the rows left and
\* then the rest
FactorRow(h, n, acc) ==
    LET row == TriRow(h, n, Len(acc) + 2)
        w == IF acc = <<>> THEN FZero
             ELSE FMul(FInt(row.a), acc[Len(acc)].rho)
        over == IF acc = <<>> THEN FZero
                ELSE FMul(w, FInt(acc[Len(acc)].c))
    IN Append(acc, [w |-> w, c |-> row.c,
                    rho |-> FDiv(FInt(1), FSub(FInt(row.b), over))])

RECURSIVE TriFactor(_, _, _, _)
TriFactor(h, n, k, acc) ==
    IF Len(acc) + 1 = k THEN FactorRow(h, n, acc)
    ELSE TriFactor(h, n, k, TriFactor(h, n, (Len(acc) + 1 + k) \div 2, acc))

Factor(xp) == TriFactor(Steps(xp), Len(xp), Len(xp) - 2, <<>>)

Slope(h, f, i) == FDivInt(FSub(f[i + 1], f[i]), h[i])

\* the right-hand side of the next row after the elimination
ForwardRow(h, n, f, fac, i, acc) ==
    Append(acc,
           FSub(FMul(FInt(6 * TriRow(h, n, i).s),
                     FSub(Slope(h, f, i), Slope(h, f, i - 1))),
                IF acc = <<>> THEN FZero
                ELSE FMul(acc[Len(acc)], fac[i - 1].w)))

RECURSIVE Forward(_, _, _, _, _, _)
Forward(h, n, f, fac, k, acc) ==
    IF Len(acc) + 1 = k THEN ForwardRow(h, n, f, fac, k + 1, acc)
    ELSE Forward(h, n, f, fac, k,
                 Forward(h, n, f, fac, (Len(acc) + 1 + k) \div 2, acc))

\* back substitution: row k, the next above the rows acc
BackwardRow(fac, gam, k, acc) ==
    <<FMul(FSub(gam[k],
                IF acc = <<>> THEN FZero
                ELSE FMul(FInt(fac[k].c), acc[1])),
           fac[k].rho)>> \o acc

RECURSIVE Backward(_, _, _, _)
Backward(fac, gam, k, acc) ==
    IF Len(acc) + 1 = k THEN BackwardRow(fac, gam, Len(gam) - Len(acc), acc)
    ELSE Backward(fac, gam, k,
                  Backward(fac, gam, (Len(acc) + 1 + k) \div 2, acc))

\* M[2..n-1] from the right-hand sides gam
Solve(fac, gam) == Backward(fac, gam, Len(gam), <<>>)

\* M[1..n] from inner = M[2..n-1]
Ends(h, inner) ==
    [i \in 1..(Len(inner) + 2) |->
        IF i = 1
        THEN FDivInt(FSub(FMul(FInt(h[1] + h[2]), inner[1]),
                          FMul(FInt(h[1]), inner[2])), h[2])
        ELSE IF i = Len(inner) + 2
        THEN FDivInt(FSub(FMul(FInt(h[i - 2] + h[i - 1]), inner[i - 2]),
                          FMul(FInt(h[i - 1]), inner[i - 3])), h[i - 2])
        ELSE inner[i - 1]]

Moments(h, n, f, fac) ==
    Ends(h, Solve(fac, Forward(h, n, f, fac, Len(fac), <<>>)))

\* the part of a cubic piece of width h that belongs to one of its ends:
\* value f and second derivative M there, t the distance from the other end
Term(f, M, t, h) ==
    FMul(t, FAdd(f, FDivInt(FMul(M, FSub(FMul(t, t), FInt(h * h))), 6)))

\* the piece between xp[j] and xp[j+1] of the spline s, at x
CubicPiece(s, j, x) ==
    FDivInt(FAdd(Term(s.f[j], s.M[j], FSub(FInt(s.xp[j + 1]), x),
                      s.xp[j + 1] - s.xp[j]),
                 Term(s.f[j + 1], s.M[j + 1], FSub(x, FInt(s.xp[j])),
                      s.xp[j + 1] - s.xp[j])),
            s.xp[j + 1] - s.xp[j])

\* the spline through (xp[i], f[i]) at u, xp[1] <= u <= xp[n]; fac is
\* Factor(xp)
CubicSpline(xp, f, fac, u) ==
    IF Knots(u, xp) # {} THEN f[CHOOSE k \in Knots(u, xp) : TRUE]
    ELSE CubicPiece([xp |-> xp, f |-> f, fac |-> fac,
                     M |-> Moments(Steps(xp), Len(xp), f, fac)],
                    Bracket(u, xp, 1), FMul(FInt(10), u.a))

\* row i of the table z
TableRow(z, i) ==
    SubSeq([k \in 1..Len(z[i]) |-> FDec(z[i][k], 7)], 1, Len(z[i]))

\* the values of the splines along y through the rows of z, at v
RowSplines(y, z, fac, v) ==
    SubSeq([i \in 1..Len(z) |-> CubicSpline(y, TableRow(z, i), fac, v)],
           1, Len(z))

\* at a grid point x[r] the spline along x has the value of row r
RectBivariateSpline(x, y, z, u, v) ==
    LET R == Knots(Clamp(u, x), x)
    IN Real(IF R # {}
            THEN CubicSpline(y, TableRow(z, CHOOSE r \in R : TRUE),
                             Factor(y), Clamp(v, y))
            ELSE CubicSpline(x, RowSplines(y, z, Factor(y), Clamp(v, y)),
                             Factor(x), Clamp(u, x)))

(***************************************************************************)
(* The methods.  Each is an operator from the object to an outcome: the    *)
(* exception raised ("none" when it returns), the object as the method     *)
(* leaves it, and the value returned.                                      *)
(***************************************************************************)
Return(self, val) == [exc |-> "none", self |-> self, val |-> val]

Raise(e, self) == [exc |-> e, self |-> self, val |-> <<>>]

\* Variant: a missing throttle entry read as zero, controls.get('delta_t', 0).
calculate_thrust_forces_moments_default(self) ==
    LET q == self.q_inf
        Sw == self.Sw
        Ct == IF "delta_t" \in DOMAIN self.controls
              THEN Mul(Dec(31, 3), self.controls.delta_t) ELSE Zero
    IN Return([self EXCEPT !.Ct = Ct], <<Mul(Mul(q, Sw), Ct), Zero, Zero>>)

\* lines 256-261; controls['delta_t'] is read before Ct is assigned
calculate_thrust_forces_moments(self) ==
    LET q == self.q_inf
        Sw == self.Sw
    IN IF "delta_t" \notin DOMAIN self.controls THEN Raise("KeyError", self)
       ELSE LET Ct == Mul(Dec(31, 3), self.controls.delta_t)
            IN Return([self EXCEPT !.Ct = Ct],
                      <<Mul(Mul(q, Sw), Ct), Zero, Zero>>)

\* lines 188-205: the interpolations of the longitudinal routine, the
\* one-dimensional ones under the name of their table
lon_interp(self) ==
    LET delta_elev == rad2deg(self.controls.delta_elevator)
        alpha_DEG == rad2deg(self.alpha)
    IN [alpha |-> [T \in {"CD_data", "CL_data", "CL_alphadot_data",
                          "CL_q_data", "CM_data", "CM_q_data",
                          "CM_alphadot_data"} |->
                      interp(alpha_DEG, self.alpha_data, self[T])],
        elev |-> [T \in {"CL_delta_elev_data", "CM_delta_elev_data"} |->
                     interp(delta_elev, self.delta_elev_data, self[T])],
        CD_delta_elev |->
            RectBivariateSpline(self.delta_elev_data, self.alpha_data,
                                self.CD_delta_elev_data, delta_elev, alpha_DEG)]

\* the three right-hand sides of lines 207-209, for V # 0
lon_sums(self, I) ==
    LET c == self.chord
        V == self.TAS
        q == self.q
        CD_interp == I.alpha.CD_data
        CD_delta_elev_interp == I.CD_delta_elev
        CL_interp == I.alpha.CL_data
        CL_alphadot_interp == I.alpha.CL_alphadot_data
        CL_q_interp == I.alpha.CL_q_data
        CL_delta_elev_interp == I.elev.CL_delta_elev_data
        CM_interp == I.alpha.CM_data
        CM_q_interp == I.alpha.CM_q_data
        CM_alphadot_interp == I.alpha.CM_alphadot_data
        CM_delta_elev_interp == I.elev.CM_delta_elev_data
    IN [CL |-> Add(Add(CL_interp, CL_delta_elev_interp),
                   Mul(DivInt(c, 2 * V),
                       Add(Mul(CL_alphadot_interp, self.alpha_dot),
                           Mul(CL_q_interp, q)))),
        CD |-> Add(CD_interp, CD_delta_elev_interp),
        CM |-> Add(Add(CM_interp, CM_delta_elev_interp),
                   Mul(DivInt(c, 2 * V),
                       Add(Mul(CM_q_interp, q),
                           Mul(CM_alphadot_interp, self.alpha_dot))))]

aero_lon_coeffs(self) == lon_sums(self, lon_interp(self))

\* Variant: the pitching moment stored in the declared field Cm.
calculate_aero_lon_forces_moments_coeffs_Cm(self) ==
    IF 2 * self.TAS = 0 THEN Raise("ZeroDivisionError", self)
    ELSE LET v == aero_lon_coeffs(self)
         IN Return(SetAttr(SetAttr(SetAttr(self, "CL", v.CL), "CD", v.CD),
                           "Cm", v.CM), <<>>)

\* lines 187-209; c/(2 * V) divides by zero in the expression of line 207,
\* before any coefficient is assigned; the results go to CL, CD and CM
calculate_aero_lon_forces_moments_coeffs(self) ==
    IF 2 * self.TAS = 0 THEN Raise("ZeroDivisionError", self)
    ELSE LET v == aero_lon_coeffs(self)
         IN Return(SetAttr(SetAttr(SetAttr(self, "CL", v.CL), "CD", v.CD),
                           "CM", v.CM), <<>>)

\* lines 212-235: the interpolations of the lateral routine
lat_interp(self) ==
    LET delta_aile == rad2deg(self.controls.delta_aileron)
        alpha_DEG == rad2deg(self.alpha)
    IN [alpha |-> [T \in {"CY_beta_data", "CY_p_data", "CY_r_data",
                          "CY_delta_rud_data", "Cl_beta_data", "Cl_p_data",
                          "Cl_r_data", "Cl_delta_rud_data", "CN_beta_data",
                          "CN_p_data", "CN_r_data", "CN_delta_rud_data"} |->
                      interp(alpha_DEG, self.alpha_data, self[T])],
        Cl_delta_aile |->
            interp(delta_aile, self.delta_aile_data, self.Cl_delta_aile_data),
        CN_delta_aile |->
            RectBivariateSpline(self.delta_aile_data, self.alpha_data,
                                self.CN_delta_aile_data, delta_aile, alpha_DEG)]

\* one right-hand side of lines 237-239 without its aileron term:
\* C_beta * beta + C_delta_rud * delta_rud_RAD + (b/(2 * V)) * (C_p * p + C_r * r)
lat_sum(self, C_beta, aile, C_delta_rud, C_p, C_r) ==
    LET delta_rud_RAD == self.controls.delta_rudder
        b == self.span
        V == self.TAS
        p == self.p
        r == self.r
    IN Add(Add(Add(Mul(C_beta, self.beta), aile),
               Mul(C_delta_rud, delta_rud_RAD)),
           Mul(DivInt(b, 2 * V), Add(Mul(C_p, p), Mul(C_r, r))))

\* the three right-hand sides of lines 237-239, for V # 0; line 237 has no
\* aileron term
lat_sums(self, I) ==
    [CY |-> lat_sum(self, I.alpha.CY_beta_data, Zero,
                    I.alpha.CY_delta_rud_data,
                    I.alpha.CY_p_data, I.alpha.CY_r_data),
     Cl |-> lat_sum(self, I.alpha.Cl_beta_data, I.Cl_delta_aile,
                    I.alpha.Cl_delta_rud_data,
                    I.alpha.Cl_p_data, I.alpha.Cl_r_data),
     CN |-> lat_sum(self, I.alpha.CN_beta_data, I.CN_delta_aile,
                    I.alpha.CN_delta_rud_data,
                    I.alpha.CN_p_data, I.alpha.CN_r_data)]

aero_lat_coeffs(self) == lat_sums(self, lat_interp(self))

\* lines 211-239; the results go to CY, Cl and CN
calculate_aero_lat_forces_moments_coeffs(self) ==
    IF 2 * self.TAS = 0 THEN Raise("ZeroDivisionError", self)
    ELSE LET v == aero_lat_coeffs(self)
         IN Return(SetAttr(SetAttr(SetAttr(self, "CY", v.CY), "Cl", v.Cl),
                           "CN", v.CN), <<>>)

\* lines 248-253, qSw being the product q * Sw they all start with
products(self, qSw) ==
    LET c == self.chord
        b == self.span
    IN [L |-> Mul(qSw, self.CL),
        D |-> Mul(qSw, self.CD),
        Y |-> Mul(qSw, self.CY),
        l |-> Mul(Mul(qSw, b), self.Cl),
        m |-> Mul(Mul(qSw, c), self.CM),
        n |-> Mul(Mul(qSw, b), self.CN)]

\* Variant: the pitch rate self.q taken for the dynamic pressure.
dimensionalise_pitch_rate(self) == products(self, Mul(self.q, self.Sw))

\* lines 242-245 and 248-254 of _calculate_aero_forces_moments, after its
\* two coefficient calls
dimensionalise(self) == products(self, Mul(self.q_inf, self.Sw))

VecAdd(u, v) == [k \in 1..3 |-> Add(u[k], v[k])]

VecScale(s, u) == [k \in 1..3 |-> Mul(Int2Num(s), u[k])]

\* Variant: the thrust added without its factor of 10.
aggregate_unit_thrust(self, fr) ==
    LET Fg == self.gravity_force
        Fa == <<Neg(fr.D), fr.Y, Neg(fr.L)>>
        total_forces == VecAdd(VecAdd(fr.Ft, Fg), Fa)
        total_moments == <<fr.l, fr.m, fr.n>>
    IN Return([self EXCEPT !.total_forces = total_forces,
                           !.total_moments = total_moments],
              <<total_forces, total_moments>>)

\* Variant: the sum accumulated in place in the gravity_force array (Fg += ...).
aggregate_in_place(self, fr) ==
    LET Fg == self.gravity_force
        Fa == <<Neg(fr.D), fr.Y, Neg(fr.L)>>
        total_forces == VecAdd(VecAdd(VecScale(10, fr.Ft), Fg), Fa)
        total_moments == <<fr.l, fr.m, fr.n>>
    IN Return([self EXCEPT !.gravity_force = total_forces,
                           !.total_forces = total_forces,
                           !.total_moments = total_moments],
              <<total_forces, total_moments>>)

\* lines 268-274: the locals Ft, L, D, Y, l, m, n are those of fr
aggregate(self, fr) ==
    LET Fg == self.gravity_force
        Fa == <<Neg(fr.D), fr.Y, Neg(fr.L)>>
        total_forces == VecAdd(VecAdd(VecScale(10, fr.Ft), Fg), Fa)
        total_moments == <<fr.l, fr.m, fr.n>>
    IN Return([self EXCEPT !.total_forces = total_forces,
                           !.total_moments = total_moments],
              <<total_forces, total_moments>>)

(***************************************************************************)
(* Flight conditions: what the integrator writes into an aircraft before   *)
(* it asks for forces and moments.  Angles are given in tenths of a        *)
(* degree, rates and the throttle in hundredths, TAS in m/s, q_inf in Pa   *)
(* and the gravity force in N.                                             *)
(***************************************************************************)
Angle(n) == deg2rad(Dec(n, 1))

Flight(alpha, beta, alpha_dot, p, q, r, TAS, q_inf, de, da, dr, dt, Fg) ==
    [alpha |-> Angle(alpha),
     beta |-> Angle(beta),
     alpha_dot |-> Dec(alpha_dot, 2),
     p |-> Dec(p, 2),
     q |-> Dec(q, 2),
     r |-> Dec(r, 2),
     TAS |-> TAS,
     q_inf |-> Int2Num(q_inf),
     controls |-> [delta_elevator |-> Angle(de),
                   delta_aileron |-> Angle(da),
                   delta_rudder |-> Angle(dr),
                   delta_t |-> Dec(dt, 2)],
     gravity_force |-> <<Int2Num(Fg[1]), Int2Num(Fg[2]), Int2Num(Fg[3])>>]

Weight == <<0, 0, 10000>>

\* the zero state at two airspeeds
ZeroState50 == Flight(0, 0, 0, 0, 0, 0, 50, 1000, 0, 0, 0, 50, <<0, 0, 0>>)

ZeroState40 == Flight(0, 0, 0, 0, 0, 0, 40, 1000, 0, 0, 0, 0, Weight)

\* alpha = -30 deg, below the grid, nothing else
DeepNegative == Flight(-300, 0, 0, 0, 0, 0, 50, 1000, 0, 0, 0, 50, <<0, 0, 0>>)

\* alpha, elevator and aileron above their grids, with rates
AboveGrids == Flight(250, 10, 2, 5, -3, 4, 50, 1000, 300, 250, 20, 100, Weight)

\* alpha, elevator and aileron below their grids
BelowGrids == Flight(-100, 0, 0, 0, 10, 0, 50, 1000, -300, -200, 0, 30, Weight)

\* no airspeed, and a negative airspeed
Standstill == Flight(25, 0, 0, 0, 5, 0, 0, 1000, 0, 0, 0, 50, Weight)

Backwards == Flight(25, 0, 3, 0, 5, 0, -50, 1000, 0, 0, 0, 50, Weight)

\* alpha = 1 deg, between two grid points, sideslip, rudder and rates
Cruise(q_inf) ==
    Flight(10, 20, 5, 10, -4, 6, 50, q_inf, 0, 0, 30, 80, Weight)

\* every argument on a grid point
OnKnots == Flight(50, -10, 0, 2, 3, -1, 40, 1000, 75, 100, -20, 100, Weight)

\* aileron at -5 and at +5 degrees, alpha on the grid, nothing else
Aileron(da, q_inf) ==
    Flight(-75, 0, 0, 0, 0, 0, 50, q_inf, 0, da, 0, 50, <<0, 0, 0>>)

\* alpha = 1 deg and the aileron (7 deg) between grid points, the elevator
\* on its grid, at -10 deg, where the drag increment is not zero
OffGrid == Flight(10, 0, 0, 0, 0, 0, 50, 1000, -100, 70, 0, 50, Weight)

Inst == {1, 2}

Flights(i) ==
    IF i = 1
    THEN {ZeroState50, ZeroState40, AboveGrids, BelowGrids, Standstill,
          Backwards, Cruise(1000), OnKnots, Aileron(-50, 1000), OffGrid}
    ELSE {DeepNegative, Cruise(2000), Aileron(50, 1000), Aileron(-50, 2000)}

(***************************************************************************)
(* State.  ac[i] is aircraft object i.  pc[i] is where its call of         *)
(* calculate_forces_and_moments stands, frame[i] the locals that call has  *)
(* bound so far (kept after the call for inspection), result[i] how its    *)
(* last call ended, fed[i] whether the integrator has written a flight     *)
(* condition into it.                                                      *)
(***************************************************************************)
VARIABLES ac, pc, frame, result, fed

vars == <<ac, pc, frame, result, fed>>

NoFrame == [n \in {} |-> Zero]

\* lines 264-274 run from start to end on one object: the exception raised,
\* the object afterwards, the locals bound and the value returned
calculate_forces_and_moments(self) ==
    LET t == calculate_thrust_forces_moments(self)
        lon == calculate_aero_lon_forces_moments_coeffs(t.self)
        lat == calculate_aero_lat_forces_moments_coeffs(lon.self)
        fr == [Ft |-> t.val] @@ dimensionalise(lat.self)
        s == aggregate(lat.self, fr)
    IN IF t.exc # "none"
       THEN [exc |-> t.exc, self |-> t.self, fr |-> NoFrame, val |-> <<>>]
       ELSE IF lon.exc # "none"
       THEN [exc |-> lon.exc, self |-> lon.self,
             fr |-> [Ft |-> t.val], val |-> <<>>]
       ELSE IF lat.exc # "none"
       THEN [exc |-> lat.exc, self |-> lat.self,
             fr |-> [Ft |-> t.val], val |-> <<>>]
       ELSE [exc |-> "none", self |-> s.self, fr |-> fr, val |-> s.val]

\* the flight condition s written into the object self
WriteState(self, s) ==
    [self EXCEPT !.alpha = s.alpha,
                 !.beta = s.beta,
                 !.alpha_dot = s.alpha_dot,
                 !.p = s.p,
                 !.q = s.q,
                 !.r = s.r,
                 !.TAS = s.TAS,
                 !.q_inf = s.q_inf,
                 !.controls = s.controls,
                 !.gravity_force = s.gravity_force]

Init ==
    /\ ac = [i \in Inst |-> Cessna172]
    /\ pc = [i \in Inst |-> "idle"]
    /\ frame = [i \in Inst |-> NoFrame]
    /\ result = [i \in Inst |-> [kind |-> "none"]]
    /\ fed = [i \in Inst |-> FALSE]

\* the integrator writes a flight condition into aircraft i
SetState(i, s) ==
    /\ pc[i] = "idle"
    /\ ~fed[i]
    /\ ac' = [ac EXCEPT ![i] = WriteState(@, s)]
    /\ fed' = [fed EXCEPT ![i] = TRUE]
    /\ UNCHANGED <<pc, frame, result>>

\* the caller takes the throttle entry out of the controls of aircraft i
DropThrottle(i) ==
    /\ pc[i] = "idle"
    /\ result[i].kind = "return"
    /\ "delta_t" \in DOMAIN ac[i].controls
    /\ ac' = [ac EXCEPT ![i].controls =
                 [k \in DOMAIN @ \ {"delta_t"} |-> @[k]]]
    /\ UNCHANGED <<pc, frame, result, fed>>

\* an exception leaves calculate_forces_and_moments
Fail(i, o) ==
    /\ ac' = [ac EXCEPT ![i] = o.self]
    /\ pc' = [pc EXCEPT ![i] = "idle"]
    /\ result' = [result EXCEPT ![i] = [kind |-> "raise", exc |-> o.exc]]
    /\ UNCHANGED <<frame, fed>>

\* line 266: the call starts with the thrust
Thrust(i) ==
    /\ pc[i] = "idle"
    /\ LET o == calculate_thrust_forces_moments(ac[i])
       IN IF o.exc # "none"
          THEN /\ ac' = [ac EXCEPT ![i] = o.self]
               /\ result' = [result EXCEPT
                                ![i] = [kind |-> "raise", exc |-> o.exc]]
               /\ frame' = [frame EXCEPT ![i] = NoFrame]
               /\ UNCHANGED <<pc, fed>>
          ELSE /\ ac' = [ac EXCEPT ![i] = o.self]
               /\ frame' = [frame EXCEPT ![i] = [Ft |-> o.val]]
               /\ pc' = [pc EXCEPT ![i] = "lon"]
               /\ result' = [result EXCEPT ![i] = [kind |-> "running"]]
               /\ UNCHANGED fed

\* Variant: CL, CD and CM kept as attributes of the class, shared by all
\* aircraft objects.
AeroLonShared(i) ==
    /\ pc[i] = "lon"
    /\ LET o == calculate_aero_lon_forces_moments_coeffs(ac[i])
       IN IF o.exc # "none" THEN Fail(i, o)
          ELSE /\ ac' = [j \in Inst |->
                           SetAttr(SetAttr(SetAttr(ac[j], "CL", o.self.CL),
                                           "CD", o.self.CD), "CM", o.self.CM)]
               /\ pc' = [pc EXCEPT ![i] = "lat"]
               /\ UNCHANGED <<frame, result, fed>>

\* line 246
AeroLon(i) ==
    /\ pc[i] = "lon"
    /\ LET o == calculate_aero_lon_forces_moments_coeffs(ac[i])
       IN IF o.exc # "none" THEN Fail(i, o)
          ELSE /\ ac' = [ac EXCEPT ![i] = o.self]
               /\ pc' = [pc EXCEPT ![i] = "lat"]
               /\ UNCHANGED <<frame, result, fed>>

\* line 247
AeroLat(i) ==
    /\ pc[i] = "lat"
    /\ LET o == calculate_aero_lat_forces_moments_coeffs(ac[i])
       IN IF o.exc # "none" THEN Fail(i, o)
          ELSE /\ ac' = [ac EXCEPT ![i] = o.self]
               /\ pc' = [pc EXCEPT ![i] = "dim"]
               /\ UNCHANGED <<frame, result, fed>>

\* lines 248-254 and the binding of line 267
AeroDim(i) ==
    /\ pc[i] = "dim"
    /\ frame' = [frame EXCEPT ![i] =
                    [Ft |-> @.Ft] @@ dimensionalise(ac[i])]
    /\ pc' = [pc EXCEPT ![i] = "sum"]
    /\ UNCHANGED <<ac, result, fed>>

\* lines 268-274
Sum(i) ==
    /\ pc[i] = "sum"
    /\ LET o == aggregate(ac[i], frame[i])
       IN /\ ac' = [ac EXCEPT ![i] = o.self]
          /\ result' = [result EXCEPT
                           ![i] = [kind |-> "return", val |-> o.val]]
    /\ pc' = [pc EXCEPT ![i] = "idle"]
    /\ UNCHANGED <<frame, fed>>

Next ==
    \E i \in Inst :
        \/ \E s \in Flights(i) : SetState(i, s)
        \/ DropThrottle(i)
        \/ Thrust(i)
        \/ AeroLon(i)
        \/ AeroLat(i)
        \/ AeroDim(i)
        \/ Sum(i)

Spec == Init /\ [][Next]_vars

(***************************************************************************)
(* Vocabulary of the properties.                                           *)
(***************************************************************************)
\* the controls of aircraft i hold a throttle setting
Throttled(i) == "delta_t" \in DOMAIN ac[i].controls

\* the last call on aircraft i has ended, and the flight condition it read,
\* throttle included, is the one now in the object (a KeyError is the result
\* of a call made when there was no throttle entry)
Ended(i) ==
    /\ pc[i] = "idle"
    /\ result[i].kind # "none"
    /\ Throttled(i)
    /\ result[i] # [kind |-> "raise", exc |-> "KeyError"]

\* ... and it returned
Evaluated(i) == Ended(i) /\ result[i].kind = "return"

\* the running or the last call on aircraft i has returned from the
\* longitudinal routine, from the lateral routine
LonDone(i) == pc[i] \in {"lat", "dim", "sum"} \/ Evaluated(i)

LatDone(i) == pc[i] \in {"dim", "sum"} \/ Evaluated(i)

\* the attributes an evaluation assigns
Written ==
    {"Ct", "CL", "CD", "CM", "CY", "Cl", "CN", "total_forces",
     "total_moments"}

\* the flight condition held by an object
Condition(self) ==
    [alpha |-> self.alpha, beta |-> self.beta, alpha_dot |-> self.alpha_dot,
     p |-> self.p, q |-> self.q, r |-> self.r, TAS |-> self.TAS,
     q_inf |-> self.q_inf, controls |-> self.controls,
     gravity_force |-> self.gravity_force]

\* what a newly built aircraft given the flight condition of aircraft i
\* yields when its call runs alone
Alone(i) == calculate_forces_and_moments(WriteState(Cessna172, Condition(ac[i])))

Twice(x) == Add(x, x)

\* 1 or Len(xp) when x lies below or above the grid xp, 0 when it lies on it
Side(x, xp) ==
    IF Less(x, Grid(xp[1])) THEN 1
    ELSE IF Less(Grid(xp[Len(xp)]), x) THEN Len(xp)
    ELSE 0

NoRatesNoControls(self) ==
    /\ self.beta = Zero
    /\ self.p = Zero /\ self.q = Zero /\ self.r = Zero
    /\ self.alpha_dot = Zero
    /\ self.controls.delta_elevator = Zero
    /\ self.controls.delta_aileron = Zero
    /\ self.controls.delta_rudder = Zero

(***************************************************************************)
(* C1.  An evaluation with true airspeed V <= 0 fails with InvalidState:   *)
(* neither the call nor a coefficient routine returns, and no other        *)
(* exception is raised.                                                    *)
(* The code has no such check: V = 0 raises ZeroDivisionError in line 207  *)
(* and V < 0 returns finite forces.                                        *)
(***************************************************************************)
C1_InvalidAirspeedRejected ==
    \A i \in Inst :
        (fed[i] /\ ac[i].TAS <= 0)
        => /\ pc[i] \notin {"lat", "dim", "sum"}
           /\ Ended(i)
              => result[i] = [kind |-> "raise", exc |-> "InvalidState"]

(***************************************************************************)
(* C2.  Zero state: with V > 0, alpha = beta = 0, no rates and no control  *)
(* deflection, the longitudinal routine records CL = 0.148, CD = 0.03 and  *)
(* CM = -0.0248.                                                           *)
(***************************************************************************)
ZeroState(i) ==
    /\ LonDone(i)
    /\ ac[i].alpha = Zero
    /\ NoRatesNoControls(ac[i])
    /\ ac[i].TAS > 0

C2_ZeroStateOriginal ==
    \A i \in Inst :
        ZeroState(i)
        => /\ ac[i].CL = Dec(148, 3)
           /\ ac[i].CD = Dec(3, 2)
           /\ ac[i].CM = Dec(-248, 4)

(***************************************************************************)
(* C2 as amended.  In the zero state CL = 0.148 and CD = 0.03, the table   *)
(* entries at alpha = 0, and CM = 0.0073: the entry 0.0075 of CM_data at   *)
(* alpha = 0 plus the entry -0.0002 of CM_delta_elev_data at zero elevator *)
(* deflection.  (-0.0248 is the entry of CM_data at alpha = 2.5 deg.)      *)
(***************************************************************************)
C2_ZeroState ==
    \A i \in Inst :
        ZeroState(i)
        => /\ ac[i].CL = Dec(148, 3)
           /\ ac[i].CL = Coef(ac[i].CL_data[4])
           /\ ac[i].CD = Dec(3, 2)
           /\ ac[i].CD = Coef(ac[i].CD_data[4])
           /\ ac[i].CM = Dec(73, 4)
           /\ ac[i].CM = Add(Coef(ac[i].CM_data[4]),
                             Coef(ac[i].CM_delta_elev_data[5]))

C2_Witness == \E i \in Inst : ZeroState(i) /\ Evaluated(i) /\ ac[i].TAS = 40

(***************************************************************************)
(* C3.  Neutral-control symmetry: at the same grid alpha, with no          *)
(* sideslip, rudder, roll or yaw rate, CN at aileron -5 deg is the         *)
(* negative of CN at aileron +5 deg.                                       *)
(* The aileron grid is not symmetric (-5 deg is row 3, +5 deg is row 6,    *)
(* whose mirror image is -2.5 deg): at alpha = -7.5 deg the code gives     *)
(* -0.002016 and 0.00101.                                                  *)
(***************************************************************************)
SymmetryCase(i, da) ==
    /\ LatDone(i)
    /\ Knots(rad2deg(ac[i].alpha), ac[i].alpha_data) # {}
    /\ ac[i].beta = Zero
    /\ ac[i].p = Zero /\ ac[i].r = Zero
    /\ ac[i].controls.delta_rudder = Zero
    /\ ac[i].TAS > 0
    /\ ac[i].controls.delta_aileron = Angle(da)

C3_AileronAntisymmetry ==
    \A i, j \in Inst :
        (SymmetryCase(i, -50) /\ SymmetryCase(j, 50)
         /\ ac[i].alpha = ac[j].alpha)
        => ac[i].CN = Neg(ac[j].CN)

(***************************************************************************)
(* C4.  Flat extrapolation: with alpha (the elevator, the aileron) outside *)
(* its grid every interpolated term is the table entry at the nearest end  *)
(* of the grid, so the recorded coefficients are the sums of the source    *)
(* formed from those entries, and the call raises nothing; alpha = -30 deg *)
(* with no rates and no controls gives CD = 0.044.                         *)
(***************************************************************************)
FlatLon(self, a, e) ==
    /\ self.CL = Add(Add(Coef(self.CL_data[a]), Coef(self.CL_delta_elev_data[e])),
                     Mul(DivInt(self.chord, 2 * self.TAS),
                         Add(Mul(Coef(self.CL_alphadot_data[a]), self.alpha_dot),
                             Mul(Coef(self.CL_q_data[a]), self.q))))
    /\ self.CD = Add(Coef(self.CD_data[a]), Coef(self.CD_delta_elev_data[e][a]))
    /\ self.CM = Add(Add(Coef(self.CM_data[a]), Coef(self.CM_delta_elev_data[e])),
                     Mul(DivInt(self.chord, 2 * self.TAS),
                         Add(Mul(Coef(self.CM_q_data[a]), self.q),
                             Mul(Coef(self.CM_alphadot_data[a]), self.alpha_dot))))

FlatLat(self, a, d) ==
    LET rates(Tp, Tr) ==
            Mul(DivInt(self.span, 2 * self.TAS),
                Add(Mul(Coef(Tp[a]), self.p), Mul(Coef(Tr[a]), self.r)))
        rud == self.controls.delta_rudder
    IN /\ self.CY = Add(Add(Mul(Coef(self.CY_beta_data[a]), self.beta),
                            Mul(Coef(self.CY_delta_rud_data[a]), rud)),
                        rates(self.CY_p_data, self.CY_r_data))
       /\ self.Cl = Add(Add(Add(Mul(Coef(self.Cl_beta_data[a]), self.beta),
                                Coef(self.Cl_delta_aile_data[d])),
                            Mul(Coef(self.Cl_delta_rud_data[a]), rud)),
                        rates(self.Cl_p_data, self.Cl_r_data))
       /\ self.CN = Add(Add(Add(Mul(Coef(self.CN_beta_data[a]), self.beta),
                                Coef(self.CN_delta_aile_data[d][a])),
                            Mul(Coef(self.CN_delta_rud_data[a]), rud)),
                        rates(self.CN_p_data, self.CN_r_data))

SideAlpha(i) == Side(rad2deg(ac[i].alpha), ac[i].alpha_data)

SideElev(i) ==
    Side(rad2deg(ac[i].controls.delta_elevator), ac[i].delta_elev_data)

SideAile(i) ==
    Side(rad2deg(ac[i].controls.delta_aileron), ac[i].delta_aile_data)

C4_FlatExtrapolation ==
    \A i \in Inst :
        /\ (LonDone(i) /\ SideAlpha(i) # 0 /\ SideElev(i) # 0)
           => FlatLon(ac[i], SideAlpha(i), SideElev(i))
        /\ (LatDone(i) /\ SideAlpha(i) # 0 /\ SideAile(i) # 0)
           => FlatLat(ac[i], SideAlpha(i), SideAile(i))
        /\ (LonDone(i) /\ SideAlpha(i) # 0 /\ NoRatesNoControls(ac[i]))
           => /\ ac[i].CD = Coef(ac[i].CD_data[SideAlpha(i)])
              /\ ac[i].CL = Coef(ac[i].CL_data[SideAlpha(i)])
        /\ (LonDone(i) /\ ac[i].alpha = Angle(-300)
            /\ NoRatesNoControls(ac[i]) /\ ac[i].TAS > 0)
           => ac[i].CD = Dec(44, 3)
        /\ (Ended(i) /\ ac[i].TAS # 0
            /\ (SideAlpha(i) # 0 \/ SideElev(i) # 0 \/ SideAile(i) # 0))
           => result[i].kind = "return"

C4_Witness ==
    \E i, j \in Inst :
        /\ Evaluated(i) /\ SideAlpha(i) # 0 /\ SideElev(i) # 0
        /\ SideAile(i) # 0
        /\ ac[i].q # Zero /\ ac[i].beta # Zero
        /\ Evaluated(j) /\ ac[j].alpha = Angle(-300)
        /\ NoRatesNoControls(ac[j]) /\ ac[j].TAS > 0

(***************************************************************************)
(* C5.  Dynamic-pressure scaling: two evaluations that differ only in      *)
(* q_inf, the second having twice the first, record identical              *)
(* coefficients, and L, D, Y, l, m, n, the thrust force, the total force   *)
(* and the total moment of the second are twice those of the first.        *)
(***************************************************************************)
SameButTwiceQ(i, j) ==
    /\ Evaluated(i) /\ Evaluated(j)
    /\ ac[i].TAS > 0
    /\ [Condition(ac[j]) EXCEPT !.q_inf = Zero]
         = [Condition(ac[i]) EXCEPT !.q_inf = Zero]
    /\ ac[j].q_inf = Twice(ac[i].q_inf)
    /\ ac[i].q_inf # Zero

TwiceAerodynamics(i, j) ==
    /\ \A n \in {"CL", "CD", "CM", "CY", "Cl", "CN", "Ct"} :
          ac[j][n] = ac[i][n]
    /\ \A n \in {"L", "D", "Y", "l", "m", "n"} :
          frame[j][n] = Twice(frame[i][n])
    /\ \A k \in 1..3 : frame[j].Ft[k] = Twice(frame[i].Ft[k])
    /\ \A k \in 1..3 : result[j].val[2][k] = Twice(result[i].val[2][k])

C5_ScalingOriginal ==
    \A i, j \in Inst :
        SameButTwiceQ(i, j)
        => /\ TwiceAerodynamics(i, j)
           /\ \A k \in 1..3 : result[j].val[1][k] = Twice(result[i].val[1][k])

(***************************************************************************)
(* C5 as amended.  Under the same hypothesis the coefficients are          *)
(* identical and L, D, Y, l, m, n, the thrust force and the total moment   *)
(* are doubled; the total force is doubled once the gravity force, which   *)
(* the caller supplies and which does not depend on q_inf, is taken out:   *)
(* F2 - Fg = 2 (F1 - Fg).                                                  *)
(***************************************************************************)
C5_Scaling ==
    \A i, j \in Inst :
        SameButTwiceQ(i, j)
        => /\ TwiceAerodynamics(i, j)
           /\ \A k \in 1..3 :
                 Sub(result[j].val[1][k], ac[j].gravity_force[k])
                   = Twice(Sub(result[i].val[1][k], ac[i].gravity_force[k]))

C5_Witness ==
    \E i, j \in Inst :
        /\ SameButTwiceQ(i, j)
        /\ ac[i].gravity_force # zeros3
        /\ frame[i].L # Zero /\ frame[i].Y # Zero /\ frame[i].n # Zero
        /\ frame[i].Ft[1] # Zero

(***************************************************************************)
(* C6.  Aggregation: after a call returns, Ct = 0.031 * throttle, the      *)
(* thrust vector is (q_inf * Sw * Ct, 0, 0), the total force is            *)
(* 10 * thrust + gravity + (-D, Y, -L) and the total moment is (l, m, n),  *)
(* with L, D, Y, l, m, n formed from the recorded coefficients; the        *)
(* throttle enters the body-x force only.  The call returns the two        *)
(* totals and records them in the object.                                  *)
(***************************************************************************)
C6_Aggregation ==
    \A i \in Inst :
        Evaluated(i)
        => LET self == ac[i]
               fr == frame[i]
               F == result[i].val[1]
               M == result[i].val[2]
               Fg == self.gravity_force
               qS == Mul(self.q_inf, self.Sw)
               Ct == Mul(Dec(31, 3), self.controls.delta_t)
               T == Mul(qS, Ct)
           IN /\ self.Ct = Ct
              /\ fr.Ft = <<T, Zero, Zero>>
              /\ fr.L = Mul(qS, self.CL)
              /\ fr.D = Mul(qS, self.CD)
              /\ fr.Y = Mul(qS, self.CY)
              /\ fr.l = Mul(Mul(qS, self.span), self.Cl)
              /\ fr.m = Mul(Mul(qS, self.chord), self.CM)
              /\ fr.n = Mul(Mul(qS, self.span), self.CN)
              /\ F[1] = Add(Add(Mul(Int2Num(10), T), Fg[1]), Neg(fr.D))
              /\ F[2] = Add(Fg[2], fr.Y)
              /\ F[3] = Add(Fg[3], Neg(fr.L))
              /\ M = <<fr.l, fr.m, fr.n>>
              /\ self.total_forces = F
              /\ self.total_moments = M

C6_Witness ==
    \E i \in Inst :
        /\ Evaluated(i)
        /\ ac[i].controls.delta_t # Zero
        /\ ac[i].gravity_force # zeros3
        /\ frame[i].Y # Zero /\ frame[i].D # Zero /\ frame[i].l # Zero

(***************************************************************************)
(* C7.  Isolation: whatever the interleaving of the calls on two aircraft  *)
(* objects, a call that has ended leaves in its object, and returns,       *)
(* exactly what a newly built aircraft with the same flight condition      *)
(* yields when its call runs alone; and no step changes two objects.       *)
(***************************************************************************)
IsolatedResults ==
    \A i \in Inst :
        (Ended(i) \/ (~fed[i] /\ pc[i] = "idle" /\ result[i].kind # "none"))
        => LET o == Alone(i)
           IN /\ ac[i] = o.self
              /\ frame[i] = o.fr
              /\ result[i] = IF o.exc = "none"
                             THEN [kind |-> "return", val |-> o.val]
                             ELSE [kind |-> "raise", exc |-> o.exc]

OneObjectPerStep ==
    \A i, j \in Inst :
        (i # j /\ <<ac[i], frame[i], pc[i], result[i]>>'
                    # <<ac[i], frame[i], pc[i], result[i]>>)
        => <<ac[j], frame[j], pc[j], result[j]>>'
             = <<ac[j], frame[j], pc[j], result[j]>>

C7_Isolation == []IsolatedResults /\ [][OneObjectPerStep]_vars

C7_Witness ==
    /\ Evaluated(1) /\ Evaluated(2)
    /\ ac[1].alpha # ac[2].alpha
    /\ ac[1].CL # ac[2].CL
    /\ result[1].val # result[2].val

(***************************************************************************)
(* C8.  Frame: a step of an evaluation assigns only Ct, CL, CD, CM, CY,    *)
(* Cl, CN, total_forces and total_moments; the geometry, the mass          *)
(* properties, the tables, the state fields, the controls, the control     *)
(* limits and gravity_force keep their values, and no other attribute      *)
(* appears.                                                                *)
(***************************************************************************)
FrameKept ==
    (pc' # pc \/ result' # result)
    => \A i \in Inst :
          /\ \A n \in DOMAIN ac[i] \ Written :
                n \in DOMAIN ac'[i] /\ ac'[i][n] = ac[i][n]
          /\ (DOMAIN ac'[i] \ DOMAIN ac[i]) \subseteq Written

C8_Frame == [][FrameKept]_vars

C8_Witness ==
    \E i \in Inst :
        /\ Evaluated(i)
        /\ ac[i].total_forces # zeros3 /\ ac[i].total_moments # zeros3
        /\ ac[i].gravity_force # zeros3
        /\ \A n \in DOMAIN Cessna172 \ Written :
              ac[i][n] = WriteState(Cessna172, Condition(ac[i]))[n]

(***************************************************************************)
(* C9.  The constructor leaves the controls without a 'delta_t' entry,     *)
(* and a call on an object whose controls have none raises KeyError and    *)
(* leaves Ct, CL, CD, CM, CY, Cl, CN, total_forces and total_moments as    *)
(* they were.                                                              *)
(***************************************************************************)
Outputs(self) == [n \in Written \cap DOMAIN self |-> self[n]]

KeyErrorKeepsOutputs ==
    \A i \in Inst :
        (~Throttled(i) /\ Thrust(i))
        => /\ result'[i] = [kind |-> "raise", exc |-> "KeyError"]
           /\ pc'[i] = "idle"
           /\ Outputs(ac'[i]) = Outputs(ac[i])

C9_MissingThrottle ==
    /\ \A i \in Inst : ~Throttled(i)
    /\ [][KeyErrorKeepsOutputs]_vars

C9_Witness ==
    \E i \in Inst :
        /\ result[i] = [kind |-> "raise", exc |-> "KeyError"]
        /\ ac[i].total_forces # zeros3
        /\ ac[i].Ct # Zero

(***************************************************************************)
(* C10.  The constructor's fields Cm and Cn are never assigned and stay    *)
(* 0; the attributes CM and CN do not exist on a new object, CM appears    *)
(* when the longitudinal routine returns and CN when the lateral routine   *)
(* returns, and at no other step.                                          *)
(***************************************************************************)
PlaceholdersStayZero ==
    \A i \in Inst :
        /\ ac[i].Cm = Zero /\ ac[i].Cn = Zero
        /\ LonDone(i) => "CM" \in DOMAIN ac[i]
        /\ LatDone(i) => "CN" \in DOMAIN ac[i]

AttributesAppear ==
    \A i \in Inst :
        /\ ("CM" \in DOMAIN ac'[i] /\ "CM" \notin DOMAIN ac[i])
           => (pc[i] = "lon" /\ pc'[i] = "lat")
        /\ ("CN" \in DOMAIN ac'[i] /\ "CN" \notin DOMAIN ac[i])
           => (pc[i] = "lat" /\ pc'[i] = "dim")

C10_Placeholders ==
    /\ \A i \in Inst : "CM" \notin DOMAIN ac[i] /\ "CN" \notin DOMAIN ac[i]
    /\ []PlaceholdersStayZero
    /\ [][AttributesAppear]_vars

C10_Witness ==
    \E i \in Inst :
        /\ Evaluated(i)
        /\ ac[i].CM # Zero /\ ac[i].CN # Zero
        /\ ac[i].Cm = Zero /\ ac[i].Cn = Zero
====
